---------------------------- MODULE Spec2Model ----------------------------
(***************************************************************************)
(* The authentication layer of alx-project-nexus: the custom User model    *)
(* (users/models.py), the account endpoints it is wired to (signup, login, *)
(* logout, Google OAuth login) as the test-suite drives and observes them, *)
(* and the fixtures the tests use to prepare the store.                    *)
(*                                                                         *)
(* State: the user table, the social-app and social-account tables, the    *)
(* session of the one test client, and the last request with its response. *)
(*                                                                         *)
(* The test runner (scripts/test_auth.py) and the development settings     *)
(* (settings/dev.py) are modelled beside it, each with a specification of  *)
(* its own.                                                                *)
(***************************************************************************)
EXTENDS Integers, FiniteSets, Sequences, TLC

VARIABLES
    users, apps, socialaccounts, session, last, \* the store and the test client
    flow,                                       \* what the client did so far
    signups,                                    \* the signups being processed
    args, pc, results, ran, failed, exitcode,   \* scripts/test_auth.py: main
    env, settings                               \* settings/dev.py

acctvars == <<users, apps, socialaccounts, session, last>>

runvars == <<args, pc, results, ran, failed, exitcode>>

cfgvars == <<env, settings>>

vars == <<users, apps, socialaccounts, session, last, flow, signups,
          args, pc, results, ran, failed, exitcode, env, settings>>

----------------------------------------------------------------------------
(* Bounds of the model *)

MaxUsers == 2

MaxApps == 2

\* the successful logins one client is followed through
MaxCycles == 2

\* the failed logins in a row one client is followed through
MaxFailures == 3

\* the clients that sign up at the same time
MaxClients == 2

----------------------------------------------------------------------------
(* Values the requests are drawn from (the literals of the tests) *)

Usernames == {"newuser", "testuser"}

Emails == {"newuser@example.com", "test@example.com"}

InvalidEmail == "invalid-email-format"

NonexistentEmail == "nonexistent@example.com"

StrongPasswords == {"ComplexPassword123!", "WrongPassword123!"}

WeakPassword == "weak"

Passwords == StrongPasswords \cup {WeakPassword}

\* the passwords of the signup form of the tests
SignupPasswords == {"ComplexPassword123!", WeakPassword}

Empty == ""

UUIDs == 1..MaxUsers

Providers == {"google", "Google"}

\* the client id of the n-th app created: 'client_id_1', 'client_id_2', ...
client_id_of(n) == "client_id_" \o ToString(n)

Uids == {"google_123"}

\* the subject ids the provider reports
CallbackUids == {"google_123", "google_user_id_123"}

\* Site.objects.get_current()
CurrentSite == 1

SESSION_KEY == "_auth_user_id"

TestDataKey == "test_data"

EmptySession == [k \in {} |-> ""]

----------------------------------------------------------------------------
(* users/models.py: class User(AbstractUser) *)

\* id = UUIDField(primary_key=True, default=uuid.uuid4): the primary key is the id
pk(u) == u.id

\* the session stores the primary key in its string form
value_to_string(id) == ToString(id)

\* mutant: the lookup reads the username column
UsersWithEmail_WrongColumn(e) == {u \in users : u.username = e}

\* email = EmailField(unique=True): the rows holding an email
UsersWithEmail(e) == {u \in users : u.email = e}

\* mutant: the email column is not unique
EmailTaken_NotUnique(e) == FALSE

EmailTaken(e) == UsersWithEmail(e) # {}

\* AbstractUser.username is unique
UsernameTaken(n) == \E u \in users : u.username = n

\* mutant: the identifier is left at AbstractUser's default
USERNAME_FIELD_Default == "username"

\* USERNAME_FIELD = 'email'
USERNAME_FIELD == "email"

\* mutant: the raw password is stored
make_password_Plain(raw) == raw

\* the stored password is the hasher's encoding of the raw password, which
\* starts with the name of the algorithm
make_password(raw) == "md5$" \o raw

\* mutant: every password verifies
check_password_Any(u, raw) == TRUE

check_password(u, raw) == u.password = make_password(raw)

\* mutant: a new row is staff
NewUser_Staff(id, username, email, raw) ==
    [id |-> id, username |-> username, email |-> email,
     password |-> make_password(raw),
     is_active |-> TRUE, is_staff |-> TRUE, is_superuser |-> FALSE]

\* a new row: AbstractUser's defaults for the flags
NewUser(id, username, email, raw) ==
    [id |-> id, username |-> username, email |-> email,
     password |-> make_password(raw),
     is_active |-> TRUE, is_staff |-> FALSE, is_superuser |-> FALSE]

\* uuid.uuid4: an id no row has
FreshIds == UUIDs \ {u.id : u \in users}

----------------------------------------------------------------------------
(* Requests and responses *)

Pre == [users |-> users, session |-> session, socialaccounts |-> socialaccounts,
        apps |-> apps]

\* the fields a request may carry; a request sets the ones its form has
NoReq == [username |-> Empty, email |-> Empty, password1 |-> Empty,
          password2 |-> Empty, login |-> Empty, password |-> Empty,
          uid |-> Empty]

Response(op, req, status, errors, url) ==
    [op |-> op, req |-> req, status |-> status, errors |-> errors, url |-> url,
     pre |-> Pre]

NoUrl == <<>>

HasMarker(s) == SESSION_KEY \in DOMAIN s

SetKey(s, key, val) ==
    [k \in DOMAIN s \cup {key} |-> IF k = key THEN val ELSE s[k]]

\* mutant: the marker holds an id no user has
auth_login_NoUser(s, u) == SetKey(s, SESSION_KEY, value_to_string(0))

\* mutant: the login starts a new, empty session
auth_login_Flush(s, u) ==
    [k \in {SESSION_KEY} |-> value_to_string(pk(u))]

\* the login of a user into a session as the tests observe it: the marker is
\* added and holds the primary key, the data already in the session stays
auth_login(s, u) == SetKey(s, SESSION_KEY, value_to_string(pk(u)))

\* mutant: the logout leaves the session as it is
auth_logout_Keep(s) == s

\* the logout of a session as test_logout_functionality states it: the session
\* is cleared
auth_logout(s) == EmptySession

----------------------------------------------------------------------------
(* The signup form *)

ValidEmailFormat(e) == e \notin {InvalidEmail, Empty}

\* mutant: every password passes the validators
StrongPassword_Any(p) == TRUE

StrongPassword(p) == p \in StrongPasswords

SignupErrors(username, email, password1, password2) ==
    (IF username = Empty \/ email = Empty THEN {"required"} ELSE {})
    \cup (IF email # Empty /\ ~ValidEmailFormat(email) THEN {"valid email"} ELSE {})
    \cup (IF ~StrongPassword(password1) \/ password1 # password2
          THEN {"password"} ELSE {})
    \cup (IF EmailTaken(email) \/ UsernameTaken(username)
          THEN {"already exists"} ELSE {})

SignupReq(username, email, password1, password2) ==
    [NoReq EXCEPT !.username = username, !.email = email,
                  !.password1 = password1, !.password2 = password2]

----------------------------------------------------------------------------
(* The login form *)

\* the users a submitted identifier names: the USERNAME_FIELD (the email), or
\* the username
\* mutant: only the email identifies a user
UsersByLogin_EmailOnly(login) == {u \in users : u.email = login}

UsersByLogin(login) ==
    {u \in users : (USERNAME_FIELD = "email" /\ u.email = login)
                   \/ u.username = login}

\* mutant: no credentials authenticate
Authenticated_None(login, password) == {}

\* the users the credentials authenticate
Authenticated(login, password) ==
    {u \in UsersByLogin(login) : check_password(u, password)}

\* mutant: inactive users may log in
user_can_authenticate_All(u) == TRUE

user_can_authenticate(u) == u.is_active

\* mutant: the third failed login in a row locks the form
LoginErrors_Lockout(login, password) ==
    IF login = Empty \/ password = Empty THEN {"required"}
    ELSE IF flow.failures >= 2 THEN {"locked"}
    ELSE IF Authenticated(login, password) = {} THEN {"not correct"}
    ELSE IF \A u \in Authenticated(login, password) : ~user_can_authenticate(u)
         THEN {"inactive"}
    ELSE {}

LoginErrors(login, password) ==
    IF login = Empty \/ password = Empty THEN {"required"}
    ELSE IF Authenticated(login, password) = {} THEN {"not correct"}
    ELSE IF \A u \in Authenticated(login, password) : ~user_can_authenticate(u)
         THEN {"inactive"}
    ELSE {}

LoginReq(login, password) ==
    [NoReq EXCEPT !.login = login, !.password = password]

----------------------------------------------------------------------------
(* The Google OAuth login endpoint *)

\* mutant: the lookup is not scoped to the current site
AppsForSite_AnySite(provider) == {a \in apps : a.provider = provider}

\* mutant: the lookup takes the apps of every provider
AppsForSite_AnyProvider(provider) == {a \in apps : CurrentSite \in a.sites}

\* the provider configurations the endpoint finds: provider 'google', on the
\* current site
AppsForSite(provider) ==
    {a \in apps : a.provider = provider /\ CurrentSite \in a.sites}

\* the URL of the provider's authorization endpoint, as the parts it is made of
authorize_url(app) ==
    <<"https://", "accounts.google.com", "/o/", "oauth2", "/auth", "?client_id=",
      app.client_id, "&scope=", "profile email">>

Contains(url, part) == \E i \in 1..Len(url) : url[i] = part

----------------------------------------------------------------------------
(* The state before anything ran *)

\* the empty test database and a new Client()
StoreInit ==
    /\ users = {}
    /\ apps = {}
    /\ socialaccounts = {}
    /\ session = EmptySession
    /\ last = [op |-> "init", req |-> NoReq, status |-> 0, errors |-> {},
               url |-> NoUrl,
               pre |-> [users |-> {}, session |-> EmptySession,
                        socialaccounts |-> {}, apps |-> {}]]

NoFlow == [stage |-> 0, email |-> Empty, password |-> Empty,
           after_logout |-> FALSE, logins |-> 0, failures |-> 0]

Clients == 1..MaxClients

\* a client that has posted nothing
Idle == [at |-> "idle", username |-> Empty, email |-> Empty, status |-> 0]

NoSignups == [c \in Clients |-> Idle]

\* the exit code of a process that has not ended
Running == -1

\* the runner was not started
RunnerIdle ==
    /\ args = {}
    /\ pc = "idle"
    /\ results = <<>>
    /\ ran = <<>>
    /\ failed = {}
    /\ exitcode = Running

\* the settings module was not imported
SettingsIdle ==
    /\ env = <<>>
    /\ settings = <<>>

Init ==
    /\ StoreInit
    /\ flow = NoFlow
    /\ signups = NoSignups
    /\ RunnerIdle
    /\ SettingsIdle

\* User.objects.create_user(username=, email=, password=): the fixture of the
\* tests; the unique columns reject a second row (IntegrityError)
CreateUser(username, email, raw) ==
    LET req == [NoReq EXCEPT !.username = username, !.email = email,
                             !.password1 = raw]
    IN
    /\ IF EmailTaken(email) \/ UsernameTaken(username)
       THEN /\ last' = Response("create_user", req, 0, {"IntegrityError"}, NoUrl)
            /\ UNCHANGED users
       ELSE /\ Cardinality(users) < MaxUsers
            /\ \E id \in FreshIds :
                 users' = users \cup {NewUser(id, username, email, raw)}
            /\ last' = Response("create_user", req, 0, {}, NoUrl)
    /\ UNCHANGED <<apps, socialaccounts, session>>

\* user.is_active = False; user.save()
\* mutant: the row is saved again under a new id
Deactivate_NewId(u) ==
    /\ u \in users
    /\ u.is_active
    /\ \E id \in FreshIds :
         users' = (users \ {u}) \cup {[u EXCEPT !.is_active = FALSE, !.id = id]}
    /\ last' = Response("deactivate", [NoReq EXCEPT !.email = u.email], 0, {}, NoUrl)
    /\ UNCHANGED <<apps, socialaccounts, session>>

Deactivate(u) ==
    /\ u \in users
    /\ u.is_active
    /\ users' = (users \ {u}) \cup {[u EXCEPT !.is_active = FALSE]}
    /\ last' = Response("deactivate", [NoReq EXCEPT !.email = u.email], 0, {}, NoUrl)
    /\ UNCHANGED <<apps, socialaccounts, session>>

\* session['test_data'] = 'preserved'; session.save(), before the login
SessionSet ==
    /\ ~HasMarker(session)
    /\ TestDataKey \notin DOMAIN session
    /\ session' = SetKey(session, TestDataKey, "preserved")
    /\ last' = Response("session_set", NoReq, 0, {}, NoUrl)
    /\ UNCHANGED <<users, apps, socialaccounts>>

\* POST account_signup
Signup(username, email, password1, password2) ==
    LET req == SignupReq(username, email, password1, password2)
        errors == SignupErrors(username, email, password1, password2)
    IN
    /\ IF errors # {}
       THEN /\ last' = Response("signup", req, 200, errors, NoUrl)
            /\ UNCHANGED <<users, session>>
       ELSE /\ Cardinality(users) < MaxUsers
            /\ \E id \in FreshIds :
                 LET u == NewUser(id, username, email, password1) IN
                 /\ users' = users \cup {u}
                 \* the new user may be logged in at once ("any auto-login
                 \* from registration"); an authenticated client stays who it is
                 /\ \/ UNCHANGED session
                    \/ /\ ~HasMarker(session)
                       /\ session' = auth_login(session, u)
            /\ last' = Response("signup", req, 302, {}, NoUrl)
    /\ UNCHANGED <<apps, socialaccounts>>

\* POST account_login, by a client that is not logged in (every login of the
\* tests is posted without the marker in the session)
Login(login, password) ==
    LET req == LoginReq(login, password)
        errors == LoginErrors(login, password)
    IN
    /\ ~HasMarker(session)
    /\ IF errors # {}
       THEN /\ last' = Response("login", req, 200, errors, NoUrl)
            /\ UNCHANGED session
       ELSE /\ \E u \in Authenticated(login, password) :
                 /\ user_can_authenticate(u)
                 /\ session' = auth_login(session, u)
            /\ last' = Response("login", req, 302, {}, NoUrl)
    /\ UNCHANGED <<users, apps, socialaccounts>>

\* POST account_logout
Logout ==
    /\ session' = auth_logout(session)
    /\ last' = Response("logout", NoReq, 302, {}, NoUrl)
    /\ UNCHANGED <<users, apps, socialaccounts>>

\* SocialApp.objects.create(provider=, name=, client_id=, secret=): a new app is
\* on no site
\* GET of the login page: the form is shown, to a logged-in client too
GetLoginPage ==
    /\ last' = Response("get_login", NoReq, 200, {}, NoUrl)
    /\ UNCHANGED <<users, apps, socialaccounts, session>>

\* the user the session's marker names
SessionUser(s) ==
    {u \in users : HasMarker(s) /\ s[SESSION_KEY] = value_to_string(pk(u))}

\* where the admin area sends a client it does not admit
AdminLoginUrl == <<"/admin/", "login", "/?next=", "/admin/">>

\* mutant: a client the admin area does not admit loses its session
GetAdmin_Flush ==
    /\ IF \E u \in SessionUser(session) : u.is_active /\ u.is_staff
       THEN /\ last' = Response("get_admin", NoReq, 200, {}, NoUrl)
            /\ UNCHANGED session
       ELSE /\ last' = Response("get_admin", NoReq, 302, {}, AdminLoginUrl)
            /\ session' = EmptySession
    /\ UNCHANGED <<users, apps, socialaccounts>>

\* GET of the admin area: anybody but an active staff user is sent to the
\* admin login; the session stays as it is
GetAdmin ==
    /\ IF \E u \in SessionUser(session) : u.is_active /\ u.is_staff
       THEN last' = Response("get_admin", NoReq, 200, {}, NoUrl)
       ELSE last' = Response("get_admin", NoReq, 302, {}, AdminLoginUrl)
    /\ UNCHANGED <<users, apps, socialaccounts, session>>

\* mutant: a new app is put on the current site
SocialAppCreate_OnSite(provider) ==
    /\ Cardinality(apps) < MaxApps
    /\ apps' = apps \cup {[id |-> Cardinality(apps) + 1, provider |-> provider,
                           client_id |-> client_id_of(Cardinality(apps) + 1),
                           sites |-> {CurrentSite}]}
    /\ last' = Response("socialapp_create", NoReq, 0, {}, NoUrl)
    /\ UNCHANGED <<users, socialaccounts, session>>

SocialAppCreate(provider) ==
    /\ Cardinality(apps) < MaxApps
    /\ apps' = apps \cup {[id |-> Cardinality(apps) + 1, provider |-> provider,
                           client_id |-> client_id_of(Cardinality(apps) + 1),
                           sites |-> {}]}
    /\ last' = Response("socialapp_create", NoReq, 0, {}, NoUrl)
    /\ UNCHANGED <<users, socialaccounts, session>>

\* app.sites.add(site)
SitesAdd(app) ==
    /\ app \in apps
    /\ CurrentSite \notin app.sites
    /\ apps' = (apps \ {app}) \cup {[app EXCEPT !.sites = @ \cup {CurrentSite}]}
    /\ last' = Response("sites_add", NoReq, 0, {}, NoUrl)
    /\ UNCHANGED <<users, socialaccounts, session>>

\* SocialAccount.objects.create(user=, provider='google', uid=)
\* mutant: the lookup finds no account
AccountsOf_None(provider, uid) == {}

\* the accounts of a provider's subject
AccountsOf(provider, uid) ==
    {a \in socialaccounts : a.provider = provider /\ a.uid = uid}

SocialAccountCreate(u, uid) ==
    /\ u \in users
    /\ AccountsOf("google", uid) = {}
    /\ socialaccounts' = socialaccounts \cup
                            {[user |-> pk(u), provider |-> "google", uid |-> uid]}
    /\ last' = Response("socialaccount_create", NoReq, 0, {}, NoUrl)
    /\ UNCHANGED <<users, apps, session>>

\* GET google_oauth2_login: a server error when the current site has no 'google'
\* app, a redirect to the provider when it has one. The sources do not say
\* which of the two a site with several 'google' apps gets: either may happen.
GoogleLogin ==
    LET found == AppsForSite("google") IN
    /\ \/ /\ Cardinality(found) # 1
          /\ last' = Response("google_login", NoReq, 500, {"server error"}, NoUrl)
       \/ /\ found # {}
          /\ \E app \in found :
               last' = Response("google_login", NoReq, 302, {}, authorize_url(app))
    /\ UNCHANGED <<users, apps, socialaccounts, session>>

\* the runner, the settings and the flow record take no part in a request
Quiet == UNCHANGED <<flow, signups, runvars, cfgvars>>

Next ==
    \/ \E n \in Usernames, e \in Emails, p \in StrongPasswords :
          CreateUser(n, e, p) /\ Quiet
    \/ \E u \in users : Deactivate(u) /\ Quiet
    \/ SessionSet /\ Quiet
    \/ \E n \in Usernames \cup {Empty}, e \in Emails \cup {InvalidEmail, Empty},
          p1 \in SignupPasswords, p2 \in SignupPasswords :
          Signup(n, e, p1, p2) /\ Quiet
    \/ \E l \in Emails \cup Usernames \cup {NonexistentEmail, Empty},
          p \in Passwords \cup {Empty} : Login(l, p) /\ Quiet
    \/ Logout /\ Quiet

Spec == Init /\ [][Next]_vars

\* the OAuth endpoint, with the fixtures that configure it
NextOAuth ==
    \/ \E n \in Usernames, e \in Emails :
          CreateUser(n, e, "ComplexPassword123!") /\ Quiet
    \/ \E l \in Emails : Login(l, "ComplexPassword123!") /\ Quiet
    \/ Logout /\ Quiet
    \/ \E pr \in Providers : SocialAppCreate(pr) /\ Quiet
    \/ \E app \in apps : SitesAdd(app) /\ Quiet
    \/ \E u \in users, uid \in Uids : SocialAccountCreate(u, uid) /\ Quiet
    \/ GoogleLogin /\ Quiet

SpecOAuth == Init /\ [][NextOAuth]_vars

----------------------------------------------------------------------------
(* The provider's callback (the plugin's view, described in the            *)
(* specification of the repository; no source of it is in the repository)  *)

\* the password of a user who has none
UnusablePassword == "!"

\* mutant: a profile's email is never taken
ProfileEmailTaken_Never(email) == FALSE

\* email = EmailField(unique=True): no second user can take the email of the
\* profile
ProfileEmailTaken(email) == EmailTaken(email)

\* the callback for the profile (uid, email) of an anonymous client:
\*   an account of (google, uid) exists: its user is logged in;
\*   else the email is some user's: no user is created; the plugin either
\*     creates nothing or connects the subject to that user;
\*   else a user and an account linking it to (google, uid) are created and
\*     the user is logged in
OAuthCallback(uid, email) ==
    LET req == [NoReq EXCEPT !.uid = uid, !.email = email]
        linked == AccountsOf("google", uid)
    IN
    /\ ~HasMarker(session)
    /\ AppsForSite("google") # {}
    /\ IF linked # {}
       THEN /\ \E a \in linked : \E u \in users :
                 /\ pk(u) = a.user
                 /\ session' = auth_login(session, u)
            /\ UNCHANGED <<users, socialaccounts>>
       ELSE IF ProfileEmailTaken(email)
       THEN /\ UNCHANGED users
            /\ \/ UNCHANGED <<socialaccounts, session>>
               \/ \E u \in UsersWithEmail(email) :
                    /\ socialaccounts' = socialaccounts \cup
                          {[user |-> pk(u), provider |-> "google", uid |-> uid]}
                    /\ session' = auth_login(session, u)
       ELSE /\ Cardinality(users) < MaxUsers
            /\ \E id \in FreshIds : \E n \in {m \in Usernames : ~UsernameTaken(m)} :
                 LET u == [NewUser(id, n, email, Empty)
                             EXCEPT !.password = UnusablePassword] IN
                 /\ users' = users \cup {u}
                 /\ socialaccounts' = socialaccounts \cup
                       {[user |-> pk(u), provider |-> "google", uid |-> uid]}
                 /\ session' = auth_login(session, u)
    /\ last' = Response("oauth_callback", req, 302, {}, NoUrl)
    /\ UNCHANGED apps

NextCallback ==
    \/ \E n \in Usernames, e \in Emails :
          CreateUser(n, e, "ComplexPassword123!") /\ Quiet
    \/ Logout /\ Quiet
    \/ SocialAppCreate("google") /\ Quiet
    \/ \E app \in apps : SitesAdd(app) /\ Quiet
    \/ \E u \in users, uid \in CallbackUids : SocialAccountCreate(u, uid) /\ Quiet
    \/ \E uid \in CallbackUids, e \in Emails : OAuthCallback(uid, e) /\ Quiet

SpecCallback == Init /\ [][NextCallback]_vars

----------------------------------------------------------------------------
(* The test runner: scripts/test_auth.py                                   *)

\* the store_true options of the parser
Flags == {"registration", "login", "oauth", "integration", "e2e", "all",
          "coverage", "quick"}

\* the keys of the results dict
Subsets == {"registration", "login", "oauth", "integration", "e2e", "coverage"}

\* the test label each run_*_tests function hands to manage.py test
TestLabel(subset) ==
    CASE subset = "registration" -> "tests.unit.test_registration"
      [] subset = "login"        -> "tests.unit.test_login"
      [] subset = "oauth"        -> "tests.unit.test_google_oauth"
      [] subset = "integration"  -> "tests.integration.test_auth_flows"
      [] subset = "e2e"          -> "tests.e2e.test_auth_e2e"

Migrate == "migrate --run-syncdb"

\* run_coverage_tests: commands
CoverageCommands == <<"coverage erase", "coverage run", "coverage report",
                      "coverage html">>

\* mutant: the block of --all leaves the browser tests out
AllSubsets_NoE2E == <<"registration", "login", "oauth", "integration">>

\* the block of --all
AllSubsets == <<"registration", "login", "oauth", "integration", "e2e">>

\* mutant: the quick block runs the browser tests too
QuickSubsets_WithE2E == <<"registration", "login", "oauth", "integration", "e2e">>

\* the block of --quick
QuickSubsets == <<"registration", "login", "oauth", "integration">>

Range(seq) == {seq[i] : i \in DOMAIN seq}

\* results[key] = value
SetResult(r, key, value) ==
    [k \in DOMAIN r \cup {key} |-> IF k = key THEN value ELSE r[k]]

\* the dict after the assignments results[seq[i]] = outcome[seq[i]], in order
SetResults(r, seq, outcome) ==
    [k \in DOMAIN r \cup Range(seq) |-> IF k \in Range(seq) THEN outcome[k] ELSE r[k]]

\* the statements results[x] = run_x_tests() of one block: each runs its
\* command, whose outcome the subprocess decides
RunSubsets(seq) ==
    \E outcome \in [Range(seq) -> BOOLEAN] :
        /\ results' = SetResults(results, seq, outcome)
        /\ ran' = ran \o [i \in DOMAIN seq |-> TestLabel(seq[i])]
        /\ failed' = failed \cup {TestLabel(k) : k \in {j \in Range(seq) : ~outcome[j]}}

\* the block of main guarded by `cond`, running the subsets of seq
Block(at, cond, seq, then) ==
    /\ pc = at
    /\ pc' = then
    /\ IF cond THEN RunSubsets(seq) ELSE UNCHANGED <<results, ran, failed>>
    /\ UNCHANGED <<args, exitcode>>

\* setup_test_environment: what it returns when the migration command
\* succeeded (migrated) or failed: True in both cases
setup_test_environment(migrated) == TRUE

\* main up to results = {}: the setup runs the migration; sys.exit(1) when the
\* setup returns False
Setup ==
    /\ pc = "setup"
    /\ \E migrated \in BOOLEAN :
         LET ok == setup_test_environment(migrated) IN
         /\ ran' = <<Migrate>>
         /\ results' = <<>>
         /\ pc' = IF ok THEN "registration" ELSE "exited"
         /\ exitcode' = IF ok THEN exitcode ELSE 1
         /\ failed' = IF migrated THEN failed ELSE failed \cup {Migrate}
    /\ UNCHANGED args

IfRegistration ==
    Block("registration", "registration" \in args, <<"registration">>, "login")

IfLogin == Block("login", "login" \in args, <<"login">>, "oauth")

IfOAuth == Block("oauth", "oauth" \in args, <<"oauth">>, "integration")

IfIntegration ==
    Block("integration", "integration" \in args, <<"integration">>, "e2e")

IfE2E == Block("e2e", "e2e" \in args, <<"e2e">>, "all")

IfAll == Block("all", "all" \in args, AllSubsets, "coverage")

\* mutant: the commands after the one that fails run too
IfCoverage_NoStop ==
    /\ pc = "coverage"
    /\ pc' = "quick"
    /\ IF "coverage" \in args
       THEN \E succeeded \in 0..Len(CoverageCommands) :
              LET ok == succeeded = Len(CoverageCommands)
              IN /\ ran' = ran \o CoverageCommands
                 /\ results' = SetResult(results, "coverage", ok)
                 /\ failed' = IF ok THEN failed
                              ELSE failed \cup {CoverageCommands[succeeded + 1]}
       ELSE UNCHANGED <<results, ran, failed>>
    /\ UNCHANGED <<args, exitcode>>

\* run_coverage_tests: the commands run in order up to the first that fails
IfCoverage ==
    /\ pc = "coverage"
    /\ pc' = "quick"
    /\ IF "coverage" \in args
       THEN \E succeeded \in 0..Len(CoverageCommands) :
              LET attempted == IF succeeded < Len(CoverageCommands)
                               THEN succeeded + 1 ELSE succeeded
                  ok == succeeded = Len(CoverageCommands)
              IN /\ ran' = ran \o SubSeq(CoverageCommands, 1, attempted)
                 /\ results' = SetResult(results, "coverage", ok)
                 /\ failed' = IF ok THEN failed
                              ELSE failed \cup {CoverageCommands[attempted]}
       ELSE UNCHANGED <<results, ran, failed>>
    /\ UNCHANGED <<args, exitcode>>

\* mutant: the quick block runs only when --quick is given
IfQuick_OnlyFlag == Block("quick", "quick" \in args, QuickSubsets, "summary")

IfQuick ==
    Block("quick",
          "quick" \in args
            \/ args \cap {"registration", "login", "oauth", "integration", "e2e",
                          "all", "coverage"} = {},
          QuickSubsets, "summary")

\* the summary: return when nothing ran, else sys.exit(0) when every recorded
\* result is True and sys.exit(1) otherwise
Summary ==
    /\ pc = "summary"
    /\ IF DOMAIN results = {}
       THEN /\ pc' = "returned"
            /\ exitcode' = 0
       ELSE /\ pc' = "exited"
            /\ exitcode' = IF \A k \in DOMAIN results : results[k] THEN 0 ELSE 1
    /\ UNCHANGED <<args, results, ran, failed>>

\* the process has ended
Ended == pc \in {"returned", "exited"}

RunnerQuiet == UNCHANGED <<acctvars, flow, signups, cfgvars>>

\* python scripts/test_auth.py with any combination of the flags
InitRunner ==
    /\ StoreInit
    /\ flow = NoFlow
    /\ signups = NoSignups
    /\ SettingsIdle
    /\ args \in SUBSET Flags
    /\ pc = "setup"
    /\ results = <<>>
    /\ ran = <<>>
    /\ failed = {}
    /\ exitcode = Running

NextRunner ==
    \/ Setup /\ RunnerQuiet
    \/ IfRegistration /\ RunnerQuiet
    \/ IfLogin /\ RunnerQuiet
    \/ IfOAuth /\ RunnerQuiet
    \/ IfIntegration /\ RunnerQuiet
    \/ IfE2E /\ RunnerQuiet
    \/ IfAll /\ RunnerQuiet
    \/ IfCoverage /\ RunnerQuiet
    \/ IfQuick /\ RunnerQuiet
    \/ Summary /\ RunnerQuiet

SpecRunner == InitRunner /\ [][NextRunner]_vars

\* every subprocess ends, so main goes on to its next statement
SpecRunnerFair == SpecRunner /\ WF_vars(NextRunner)

----------------------------------------------------------------------------
(* The development settings: settings/dev.py                               *)

\* the environment variables the module reads
EnvVars == {"POSTGRES_DB", "POSTGRES_USER", "POSTGRES_PASSWORD", "POSTGRES_HOST",
            "POSTGRES_PORT", "REDIS_HOST", "REDIS_PORT", "REDIS_PASSWORD"}

\* the values a deployment may export for a variable: a value of its own, or
\* the empty string
EnvValues(var) == {"", "env:" \o var}

\* Python's None: no string
None == "None"

\* mutant: the environment is not looked at
getenv_Default(environ, key, default) == default

\* os.getenv(key, default)
getenv(environ, key, default) ==
    IF key \in DOMAIN environ THEN environ[key] ELSE default

\* the connection settings of DATABASES['default'] and CACHES['default']
dev_settings(environ) ==
    [NAME |-> getenv(environ, "POSTGRES_DB", "nexus_db"),
     USER |-> getenv(environ, "POSTGRES_USER", "nexus_user"),
     PASSWORD |-> getenv(environ, "POSTGRES_PASSWORD", "nexus_password"),
     HOST |-> getenv(environ, "POSTGRES_HOST", "localhost"),
     PORT |-> getenv(environ, "POSTGRES_PORT", "5432"),
     LOCATION |-> "redis://" \o getenv(environ, "REDIS_HOST", "localhost")
                  \o ":" \o getenv(environ, "REDIS_PORT", "6379") \o "/1",
     CACHE_PASSWORD |-> getenv(environ, "REDIS_PASSWORD", None)]

\* os.environ[var] = value
setenv(environ, var, value) ==
    [k \in DOMAIN environ \cup {var} |-> IF k = var THEN value ELSE environ[k]]

\* the deployment exports a variable before the settings are imported
Export(var, value) ==
    /\ settings = <<>>
    /\ var \notin DOMAIN env
    /\ env' = setenv(env, var, value)
    /\ UNCHANGED settings

\* import settings.dev
Import ==
    /\ settings = <<>>
    /\ settings' = dev_settings(env)
    /\ UNCHANGED env

NextSettings ==
    \/ \E var \in EnvVars : \E value \in EnvValues(var) :
          Export(var, value) /\ UNCHANGED <<acctvars, flow, signups, runvars>>
    \/ Import /\ UNCHANGED <<acctvars, flow, signups, runvars>>

SpecSettings == Init /\ [][NextSettings]_vars

----------------------------------------------------------------------------
(* Signups of several clients at the same time: each request validates its *)
(* form against the store and then inserts the row, and the steps of the   *)
(* requests interleave (no transaction spans the two steps). The sessions  *)
(* of the clients are left out.                                            *)

\* a client posts the signup form with a strong password
SignupPost(c, username, email) ==
    /\ signups[c].at = "idle"
    /\ signups' = [signups EXCEPT ![c] = [at |-> "validate", username |-> username,
                                           email |-> email, status |-> 0]]
    /\ UNCHANGED <<users, apps, socialaccounts, session, last>>

\* the form is validated against the rows of the store: 200 with errors, or on
\* to the insert
SignupValidate(c) ==
    LET r == signups[c]
        errors == SignupErrors(r.username, r.email, "ComplexPassword123!",
                               "ComplexPassword123!")
    IN
    /\ r.at = "validate"
    /\ signups' = [signups EXCEPT ![c] =
                     IF errors # {} THEN [r EXCEPT !.at = "done", !.status = 200]
                     ELSE [r EXCEPT !.at = "insert"]]
    /\ UNCHANGED <<users, apps, socialaccounts, session, last>>

\* mutant: the table has no unique index
SignupInsert_NoIndex(c) ==
    LET r == signups[c] IN
    /\ r.at = "insert"
    /\ Cardinality(users) < MaxUsers
    /\ \E id \in FreshIds :
         users' = users \cup {NewUser(id, r.username, r.email, "ComplexPassword123!")}
    /\ signups' = [signups EXCEPT ![c] = [r EXCEPT !.at = "done", !.status = 302]]
    /\ UNCHANGED <<apps, socialaccounts, session, last>>

\* the row is inserted: the unique index of the email (and of the username)
\* refuses a value a row already has (IntegrityError, a server error), else
\* the user is created and the client redirected
SignupInsert(c) ==
    LET r == signups[c] IN
    /\ r.at = "insert"
    /\ IF EmailTaken(r.email) \/ UsernameTaken(r.username)
       THEN /\ signups' = [signups EXCEPT ![c] = [r EXCEPT !.at = "done", !.status = 500]]
            /\ UNCHANGED users
       ELSE /\ Cardinality(users) < MaxUsers
            /\ \E id \in FreshIds :
                 users' = users \cup
                            {NewUser(id, r.username, r.email, "ComplexPassword123!")}
            /\ signups' = [signups EXCEPT ![c] = [r EXCEPT !.at = "done", !.status = 302]]
    /\ UNCHANGED <<apps, socialaccounts, session, last>>

Parallel == UNCHANGED <<flow, runvars, cfgvars>>

NextConcurrent ==
    \/ \E c \in Clients, n \in Usernames, e \in Emails : SignupPost(c, n, e) /\ Parallel
    \/ \E c \in Clients : SignupValidate(c) /\ Parallel
    \/ \E c \in Clients : SignupInsert(c) /\ Parallel

SpecConcurrent == Init /\ [][NextConcurrent]_vars

----------------------------------------------------------------------------
(* The requests that touch the authentication of a client, with the OAuth  *)
(* login endpoint among them                                               *)

NextAuth ==
    \/ \E n \in Usernames, e \in Emails, p \in SignupPasswords :
          Signup(n, e, p, p) /\ Quiet
    \/ \E l \in Emails \cup {NonexistentEmail}, p \in StrongPasswords :
          Login(l, p) /\ Quiet
    \/ Logout /\ Quiet
    \/ \E u \in users : Deactivate(u) /\ Quiet
    \/ SocialAppCreate("google") /\ Quiet
    \/ \E app \in apps : SitesAdd(app) /\ Quiet
    \/ GoogleLogin /\ Quiet

SpecAuth == Init /\ [][NextAuth]_vars

----------------------------------------------------------------------------
(* One client followed through its requests: the flows of                  *)
(* tests/integration/test_auth_flows.py                                    *)

\* what the flow record holds after the request answered by r:
\*   stage 1  a signup just succeeded with (email, password)
\*   stage 2  the logout that followed it
\*   stage 3  the login with (email, password) that followed the logout
\*   after_logout  the request before it was a logout
\*   logins   the successful logins so far
\*   failures the failed logins in a row up to this request, a login that
\*            succeeds after them included
Track(f, before, r) ==
    LET signed == r.op = "signup" /\ r.status = 302
        stage == IF signed THEN 1
                 ELSE IF f.stage = 1 /\ r.op = "logout" THEN 2
                 ELSE IF f.stage = 2 /\ r.op = "login" /\ r.req.login = f.email
                         /\ r.req.password = f.password THEN 3
                 ELSE 0
    IN [stage |-> stage,
        email |-> IF signed THEN r.req.email
                  ELSE IF stage = 0 THEN Empty ELSE f.email,
        password |-> IF signed THEN r.req.password1
                     ELSE IF stage = 0 THEN Empty ELSE f.password,
        after_logout |-> before.op = "logout",
        logins |-> IF r.op = "login" /\ r.status = 302
                   THEN f.logins + 1 ELSE f.logins,
        failures |-> IF r.op # "login" THEN 0
                     ELSE IF r.status = 200 THEN f.failures + 1 ELSE f.failures]

Tracked ==
    /\ flow' = Track(flow, last, last')
    /\ UNCHANGED <<signups, runvars, cfgvars>>

NextFlow ==
    \/ \E n \in Usernames, e \in Emails, p \in SignupPasswords :
          Signup(n, e, p, p) /\ Tracked
    \/ \E l \in Emails \cup Usernames, p \in StrongPasswords :
          /\ flow.logins < MaxCycles
          /\ flow.failures < MaxFailures \/ LoginErrors(l, p) = {}
          /\ Login(l, p)
          /\ Tracked
    \/ Logout /\ Tracked
    \/ \E u \in users : Deactivate(u) /\ Tracked
    \/ \E u \in users, uid \in Uids : SocialAccountCreate(u, uid) /\ Tracked
    \/ GetLoginPage /\ Tracked
    \/ GetAdmin /\ Tracked

SpecFlow == Init /\ [][NextFlow]_vars

----------------------------------------------------------------------------
(* Properties *)

\* C1: in every reachable state of the user store, after any sequence of signups
\* and direct user creations, no two distinct users have the same email.
C1_EmailUnique ==
    \A u \in users, v \in users : u.email = v.email => u = v

\* two users are stored and a direct creation with a used email was rejected
C1_Witness ==
    /\ Cardinality(users) = 2
    /\ last.op = "create_user"
    /\ "IntegrityError" \in last.errors
    /\ \E u \in users : u.email = last.req.email /\ u.username # last.req.username

\* the request of a signup is valid and uses no username or email of a user
C2_Pre ==
    /\ last.op = "signup"
    /\ last.req.username \in Usernames
    /\ last.req.email \in Emails
    /\ \A u \in last.pre.users :
         u.username # last.req.username /\ u.email # last.req.email
    /\ last.req.password1 = last.req.password2
    /\ last.req.password1 \in StrongPasswords

\* C2: a signup with a valid, unused username and email and two matching strong
\* passwords is answered with a redirect and adds exactly one user, who carries
\* the submitted username and email, is active, not staff and not superuser;
\* also when users were registered before.
C2_ValidSignupCreatesOneUser ==
    C2_Pre =>
      /\ last.status = 302
      /\ Cardinality(users) = Cardinality(last.pre.users) + 1
      /\ \E u \in users \ last.pre.users :
           /\ users = last.pre.users \cup {u}
           /\ u.username = last.req.username
           /\ u.email = last.req.email
           /\ u.is_active
           /\ ~u.is_staff
           /\ ~u.is_superuser

\* a second registration in a row succeeded
C2_Witness ==
    /\ C2_Pre
    /\ last.status = 302
    /\ Cardinality(last.pre.users) = 1
    /\ Cardinality(users) = 2

\* the email of a signup belongs to a user, the username is given and unused
C3_Pre ==
    /\ last.op = "signup"
    /\ \E u \in last.pre.users : u.email = last.req.email
    /\ last.req.username # Empty
    /\ \A u \in last.pre.users : u.username # last.req.username

\* C3: a signup whose email belongs to an existing user (with another, unused
\* username) leaves the users unchanged, still exactly one with that email, and
\* is answered with the form again (200, no redirect) and "already exists".
C3_DuplicateEmailRejected ==
    C3_Pre =>
      /\ users = last.pre.users
      /\ Cardinality({u \in users : u.email = last.req.email}) = 1
      /\ last.status = 200
      /\ "already exists" \in last.errors

\* a signup that was otherwise valid was refused for its email alone
C3_Witness ==
    /\ C3_Pre
    /\ last.status = 200
    /\ last.errors = {"already exists"}

\* the users an identifier and password of the last login belong to
C4_Owners ==
    {u \in last.pre.users :
        /\ u.email = last.req.login
        /\ u.is_active
        /\ u.password = make_password(last.req.password)}

C5_WrongPassword ==
    /\ last.op = "login"
    /\ last.req.password \in Passwords
    /\ \E u \in last.pre.users : u.email = last.req.login
    /\ \A u \in last.pre.users :
         u.email = last.req.login => u.password # make_password(last.req.password)

\* the last login named an email of no user
C5_UnknownEmail ==
    /\ last.op = "login"
    /\ last.req.password \in Passwords
    /\ last.req.login \in Emails \cup {NonexistentEmail}
    /\ \A u \in last.pre.users : u.email # last.req.login

\* C5: a login with an existing email and a wrong password and a login with an
\* email of no user both leave the session without the marker and get the same
\* response (200, the generic "not correct"): what the client sees does not
\* depend on whether the email exists.
C5_FailedLoginIndistinguishable ==
    (C5_WrongPassword \/ C5_UnknownEmail) =>
      /\ ~HasMarker(session)
      /\ last.status = 200
      /\ last.errors = {"not correct"}
      /\ last.url = NoUrl

\* a wrong password was refused for the email of a user
C5_Witness ==
    /\ C5_WrongPassword
    /\ last.errors = {"not correct"}
    /\ Cardinality(users) = 2

\* the last login presented the email and password of an inactive user
C6_Pre ==
    /\ last.op = "login"
    /\ \E u \in last.pre.users :
         /\ u.email = last.req.login
         /\ u.password = make_password(last.req.password)
         /\ ~u.is_active

\* C6: a login with the correct email and password of an inactive user leaves
\* the session without the marker and is answered (200) with "inactive", which
\* is not the "not correct" of wrong credentials.
C6_InactiveUserRejected ==
    C6_Pre =>
      /\ ~HasMarker(session)
      /\ last.status = 200
      /\ "inactive" \in last.errors
      /\ "not correct" \notin last.errors

\* an inactive user was refused
C6_Witness ==
    /\ C6_Pre
    /\ last.status = 200
    /\ last.errors = {"inactive"}

\* the last request was a logout of a session holding the marker
C7_Pre ==
    /\ last.op = "logout"
    /\ HasMarker(last.pre.session)

\* C7 as stated: a logout of a session holding the marker is answered with a
\* redirect, removes the marker, and leaves every unrelated key set before the
\* login in the session with its value.
C7_LogoutPreservesUnrelatedKeys ==
    C7_Pre =>
      /\ last.status = 302
      /\ ~HasMarker(session)
      /\ \A k \in DOMAIN last.pre.session \ {SESSION_KEY} :
           k \in DOMAIN session /\ session[k] = last.pre.session[k]

\* C7 as amended: a logout of a session holding the marker is answered with a
\* redirect and removes the marker; the session is cleared, so the unrelated
\* keys set before the login are removed with it.
C7_LogoutClearsSession ==
    C7_Pre =>
      /\ last.status = 302
      /\ ~HasMarker(session)
      /\ \A k \in DOMAIN last.pre.session : k \notin DOMAIN session

\* a session with the marker and a key set before the login was logged out
C7_Witness ==
    /\ C7_Pre
    /\ TestDataKey \in DOMAIN last.pre.session
    /\ last.status = 302

\* C8: a successful login leaves every key the client had set before in the
\* session with its value, and adds only the marker.
C8_LoginPreservesSession ==
    (last.op = "login" /\ last.status = 302) =>
      /\ \A k \in DOMAIN last.pre.session :
           k \in DOMAIN session /\ session[k] = last.pre.session[k]
      /\ DOMAIN session = DOMAIN last.pre.session \cup {SESSION_KEY}

\* a client with session data logged in
C8_Witness ==
    /\ last.op = "login"
    /\ last.status = 302
    /\ TestDataKey \in DOMAIN last.pre.session
    /\ session[TestDataKey] = "preserved"

\* the 'google' apps of the current site, before the last request
C9_Configured ==
    {a \in last.pre.apps : a.provider = "google" /\ CurrentSite \in a.sites}

\* the last request left the store and the authentication of the client alone
OAuthFrame ==
    /\ session = last.pre.session
    /\ users = last.pre.users
    /\ socialaccounts = last.pre.socialaccounts

\* C9: a request to the Google OAuth login endpoint while no 'google' SocialApp
\* is on the current site fails with a server error (500), authenticates nobody
\* and leaves the users and the social accounts unchanged.
C9_UnconfiguredOAuthFails ==
    (last.op = "google_login" /\ C9_Configured = {}) =>
      /\ last.status = 500
      /\ (~HasMarker(last.pre.session) => ~HasMarker(session))
      /\ OAuthFrame

\* the endpoint failed for an anonymous client while the only 'google' app is
\* on no site, and users and social accounts exist
C9_Witness ==
    /\ last.op = "google_login"
    /\ C9_Configured = {}
    /\ \E a \in apps : a.provider = "google"
    /\ last.status = 500
    /\ ~HasMarker(session)
    /\ users # {}
    /\ socialaccounts # {}

\* C10: a request to the Google OAuth login endpoint while exactly one 'google'
\* SocialApp is on the current site is answered with a redirect (302) to a URL
\* that contains accounts.google.com and that app's client id; it authenticates
\* nobody and creates no user and no social account.
C10_ConfiguredOAuthRedirects ==
    (last.op = "google_login" /\ Cardinality(C9_Configured) = 1) =>
      /\ last.status = 302
      /\ Contains(last.url, "accounts.google.com")
      /\ \A a \in C9_Configured : Contains(last.url, a.client_id)
      /\ (~HasMarker(last.pre.session) => ~HasMarker(session))
      /\ OAuthFrame

\* the endpoint redirected an anonymous client while a second app exists
C10_Witness ==
    /\ last.op = "google_login"
    /\ Cardinality(C9_Configured) = 1
    /\ Cardinality(apps) = 2
    /\ last.status = 302
    /\ ~HasMarker(session)
    /\ users # {}


\* C11: a user's id is the one given at creation and never changes: after
\* every request (login, failed login, logout, deactivation, further signups,
\* linking of a social account) every user that was there before the request
\* is still there under the same id, and no id belongs to two users.
C11_IdAssignedOnce ==
    /\ \A u \in last.pre.users :
         \E v \in users : v.email = u.email /\ v.username = u.username /\ v.id = u.id
    /\ \A u, v \in users : u.id = v.id => u = v
    /\ \A u \in users : u.id \in UUIDs

C11_Witness ==
    /\ last.op = "deactivate"
    /\ Cardinality(users) = 2
    /\ socialaccounts # {}
    /\ flow.logins > 0


\* C12: the exit code of the runner reflects the subsets selected: when the
\* process has ended, the code is 0 exactly when no command of a subset failed
\* and 1 when a command of a subset failed.
C12_ExitCodeReflectsSubsets ==
    Ended => /\ exitcode = 0 <=> failed \ {Migrate} = {}
             /\ exitcode = 1 <=> failed \ {Migrate} # {}


\* the flags in the order main looks at them
C13_Order == <<"registration", "login", "oauth", "integration", "e2e", "all",
               "coverage", "quick">>

\* the subsets a flag stands for
C13_Subsets(flag) ==
    CASE flag = "all"   -> <<"registration", "login", "oauth", "integration", "e2e">>
      [] flag = "quick" -> <<"registration", "login", "oauth", "integration">>
      [] OTHER          -> <<flag>>

\* the commands a flag stands for, the coverage sequence cut after its k-th
C13_Commands(flag, k) ==
    IF flag = "coverage" THEN SubSeq(CoverageCommands, 1, k)
    ELSE [i \in DOMAIN C13_Subsets(flag) |-> TestLabel(C13_Subsets(flag)[i])]

RECURSIVE C13_Expected(_, _)
C13_Expected(i, k) ==
    IF i > Len(C13_Order) THEN <<>>
    ELSE (IF C13_Order[i] \in args THEN C13_Commands(C13_Order[i], k) ELSE <<>>)
         \o C13_Expected(i + 1, k)

\* C13: each flag stands for a fixed list of subsets whatever the other flags
\* are: when a run with at least one flag has ended, the subsets that ran are
\* the union of the subsets of the flags given, and the commands that ran are
\* those of the flags given, flag after flag in the order of main (--all:
\* registration, login, oauth, integration, e2e; --quick: registration, login,
\* oauth, integration; --coverage: the coverage commands, in order, up to the
\* first that fails or all four).
C13_FlagsSelectSubsets ==
    Ended /\ args # {} =>
        /\ DOMAIN results = UNION {Range(C13_Subsets(f)) : f \in args}
        /\ \E k \in 1..Len(CoverageCommands) :
               /\ ran = <<Migrate>> \o C13_Expected(1, k)
               /\ "coverage" \in DOMAIN results /\ results["coverage"]
                    => k = Len(CoverageCommands)

C13_Witness ==
    /\ Ended
    /\ args = {"login", "e2e", "all", "coverage", "quick"}
    /\ failed \cap Range(CoverageCommands) = {}
    /\ failed # {}


\* C14: a user created by the signup endpoint can log in with the registered
\* credentials: after a successful signup with password p, then a logout, the
\* login with the registered email and p is answered with a redirect, the
\* marker of the session is that user's id, and the stored password verifies
\* against p and is not p itself.
C14_RegisteredCredentialsLogIn ==
    flow.stage = 3 =>
        /\ last.op = "login"
        /\ last.status = 302
        /\ HasMarker(session)
        /\ \E u \in users :
              /\ u.email = flow.email
              /\ session[SESSION_KEY] = value_to_string(pk(u))
              /\ check_password(u, flow.password)
              /\ u.password # flow.password

C14_Witness ==
    /\ flow.stage = 3
    /\ last.op = "login"
    /\ last.req.login = "newuser@example.com"
    /\ Cardinality(users) = 2


\* the active users the request names by username and whose password it gives
C15_Named ==
    {u \in last.pre.users : /\ u.username = last.req.login
                            /\ u.email # last.req.login
                            /\ u.is_active
                            /\ check_password(u, last.req.password)}

\* C15: a login whose identifier is the username (not the email) of an
\* existing active user, with that user's password, is answered with a
\* redirect and the session holds the marker of that user.
C15_LoginByUsername ==
    last.op = "login" /\ C15_Named # {} =>
        /\ last.status = 302
        /\ HasMarker(session)
        /\ \E u \in C15_Named : session[SESSION_KEY] = value_to_string(pk(u))

C15_Witness ==
    /\ last.op = "login"
    /\ last.req.login = "testuser"
    /\ C15_Named # {}
    /\ Cardinality(users) = 2


\* the accounts of the callback's subject before the callback
C16_Linked ==
    {a \in last.pre.socialaccounts : a.provider = "google" /\ a.uid = last.req.uid}

\* the callback logged the linked user in and created nothing
C16_LoggedInLinked ==
    /\ users = last.pre.users
    /\ socialaccounts = last.pre.socialaccounts
    /\ HasMarker(session)
    /\ \E a \in C16_Linked : session[SESSION_KEY] = value_to_string(a.user)

\* the callback created one user and one account linking it to the subject
C16_CreatedPair ==
    /\ last.pre.users \subseteq users
    /\ last.pre.socialaccounts \subseteq socialaccounts
    /\ Cardinality(users \ last.pre.users) = 1
    /\ Cardinality(socialaccounts \ last.pre.socialaccounts) = 1
    /\ \E u \in users \ last.pre.users :
         socialaccounts \ last.pre.socialaccounts
           = {[user |-> pk(u), provider |-> "google", uid |-> last.req.uid]}

\* no subject of the provider has two accounts
C16_OneAccountPerSubject ==
    \A uid \in CallbackUids : Cardinality(AccountsOf("google", uid)) <= 1

C16_EmailOwners == {u \in last.pre.users : u.email = last.req.email}

C17_LinkedToOneUser ==
    \A a \in socialaccounts : Cardinality({u \in users : pk(u) = a.user}) = 1

C18_Default ==
    [POSTGRES_DB |-> "nexus_db", POSTGRES_USER |-> "nexus_user",
     POSTGRES_PASSWORD |-> "nexus_password", POSTGRES_HOST |-> "localhost",
     POSTGRES_PORT |-> "5432", REDIS_HOST |-> "localhost", REDIS_PORT |-> "6379",
     REDIS_PASSWORD |-> None]

\* the value a variable stands for in the environment e
C18_Value(e, var) == IF var \in DOMAIN e THEN e[var] ELSE C18_Default[var]

\* the settings the claim expects under the environment e
C18_Expected(e) ==
    [NAME |-> C18_Value(e, "POSTGRES_DB"),
     USER |-> C18_Value(e, "POSTGRES_USER"),
     PASSWORD |-> C18_Value(e, "POSTGRES_PASSWORD"),
     HOST |-> C18_Value(e, "POSTGRES_HOST"),
     PORT |-> C18_Value(e, "POSTGRES_PORT"),
     LOCATION |-> "redis://" \o C18_Value(e, "REDIS_HOST") \o ":"
                  \o C18_Value(e, "REDIS_PORT") \o "/1",
     CACHE_PASSWORD |-> C18_Value(e, "REDIS_PASSWORD")]

\* the settings a variable decides
C18_SettingsOf(var) ==
    CASE var = "POSTGRES_DB"       -> {"NAME"}
      [] var = "POSTGRES_USER"     -> {"USER"}
      [] var = "POSTGRES_PASSWORD" -> {"PASSWORD"}
      [] var = "POSTGRES_HOST"     -> {"HOST"}
      [] var = "POSTGRES_PORT"     -> {"PORT"}
      [] var = "REDIS_HOST"        -> {"LOCATION"}
      [] var = "REDIS_PORT"        -> {"LOCATION"}
      [] var = "REDIS_PASSWORD"    -> {"CACHE_PASSWORD"}

\* C18: once the settings are imported, every database and cache connection
\* setting is the value of its environment variable when the variable is set
\* and its development default (nexus_db, nexus_user, nexus_password,
\* localhost, 5432; localhost, 6379, no password) when it is unset; and had one
\* more variable been set, only the settings of that variable would differ.
C18_SettingsFollowEnvironment ==
    settings # <<>> =>
        /\ settings = C18_Expected(env)
        /\ \A var \in EnvVars : \A value \in EnvValues(var) :
             \A k \in DOMAIN settings \ C18_SettingsOf(var) :
                dev_settings(setenv(env, var, value))[k] = settings[k]

\* the settings were imported with some variables set, one to the empty
\* string, and the others unset
C18_Witness ==
    /\ settings # <<>>
    /\ DOMAIN env = {"POSTGRES_HOST", "POSTGRES_PASSWORD", "REDIS_PORT"}
    /\ env["POSTGRES_PASSWORD"] = ""
    /\ env["REDIS_PORT"] # ""


\* the signup request fails validation: a required field is empty, the email
\* is not an email address, the password is weak or the two passwords differ
C19_Invalid ==
    \/ last.req.username = Empty
    \/ last.req.email = Empty
    \/ last.req.email = InvalidEmail
    \/ last.req.password1 = WeakPassword
    \/ last.req.password1 # last.req.password2

\* C19: a signup request that fails validation creates no user and
\* authenticates nobody: the users and the session are as before the request
\* and the form is shown again (200) with an error.
C19_InvalidSignupChangesNothing ==
    last.op = "signup" /\ C19_Invalid =>
        /\ users = last.pre.users
        /\ session = last.pre.session
        /\ last.status = 200
        /\ last.errors # {}

\* a free email and username, refused for the weak password alone
C19_Witness ==
    /\ last.op = "signup"
    /\ last.req.password1 = WeakPassword
    /\ last.req.password2 = WeakPassword
    /\ last.req.username \in Usernames
    /\ last.req.email \in Emails
    /\ \A u \in users : u.email # last.req.email /\ u.username # last.req.username
    /\ users # {}


\* the active users whose email or username and password the login gives
C20_Owners ==
    {u \in last.pre.users : /\ last.req.login \in {u.email, u.username}
                            /\ check_password(u, last.req.password)
                            /\ u.is_active}

\* C20: a session starts without the marker; the marker is absent right after
\* every logout; and a login with correct credentials that follows a logout
\* succeeds again (redirect, marker present), however many logins went before.
C20_LoginLogoutCycle ==
    /\ last.op = "init" => ~HasMarker(session)
    /\ last.op = "logout" => ~HasMarker(session)
    /\ last.op = "login" /\ flow.after_logout /\ C20_Owners # {} =>
         /\ last.status = 302
         /\ HasMarker(session)
         /\ \E u \in C20_Owners : session[SESSION_KEY] = value_to_string(pk(u))

\* the last of the logins followed succeeded right after a logout
C20_Witness ==
    /\ last.op = "login"
    /\ last.status = 302
    /\ flow.after_logout
    /\ flow.logins = MaxCycles
    /\ HasMarker(session)


\* the coverage commands that ran, in the order they ran
C24_Ran == SelectSeq(ran, LAMBDA c : c \in Range(CoverageCommands))

\* the coverage commands that failed
C24_Failed == failed \cap Range(CoverageCommands)

\* C24: run_coverage_tests runs erase, run, report, html in this order; it
\* stops at the first command that fails, runs none of the later ones and
\* returns False; it returns True only when all four succeeded.
C24_CoverageStopsAtFirstFailure ==
    "coverage" \in DOMAIN results =>
        \E k \in 1..Len(CoverageCommands) :
            /\ C24_Ran = SubSeq(CoverageCommands, 1, k)
            /\ C24_Failed \subseteq {CoverageCommands[k]}
            /\ C24_Failed = {} => k = Len(CoverageCommands) /\ results["coverage"]
            /\ C24_Failed # {} => ~results["coverage"]

\* the second command failed: two commands ran and the result is False
C24_Witness ==
    /\ "coverage" \in DOMAIN results
    /\ Len(C24_Ran) = 2
    /\ C24_Failed = {"coverage run"}
    /\ ~results["coverage"]
    /\ Ended


\* the commands of a run of the quick block alone, after the migration
C25_QuickRun ==
    <<Migrate, "tests.unit.test_registration", "tests.unit.test_login",
      "tests.unit.test_google_oauth", "tests.integration.test_auth_flows">>

\* C25: a run without any flag does what a run with --quick alone does: it
\* runs registration, login, oauth and integration in this order and nothing
\* else; and the browser subset runs only when --e2e or --all is given.
C25_NoFlagMeansQuick ==
    /\ Ended /\ args \in {{}, {"quick"}} =>
         /\ ran = C25_QuickRun
         /\ DOMAIN results = {"registration", "login", "oauth", "integration"}
    /\ "tests.e2e.test_auth_e2e" \in Range(ran) => args \cap {"e2e", "all"} # {}

\* a run without flags ended with a failed subset
C25_Witness ==
    /\ Ended
    /\ args = {}
    /\ ~results["oauth"]
    /\ exitcode = 1

\* C27: when a command of a subset failed during the run, the exit code is 1,
\* also for flags that run a subset more than once (--all --quick,
\* --registration --quick).
C27_AnyFailureExitsOne ==
    Ended /\ failed \ {Migrate} # {} => exitcode = 1

\* C28: when the migration fails, the runner exits with code 1 and runs no
\* test subset.
C28_FailedSetupRunsNothing ==
    Migrate \in failed =>
        /\ ran = <<Migrate>>
        /\ pc = "exited"
        /\ exitcode = 1

\* C30: every run records a result, so the summary never takes the branch
\* "No tests were run" (a return without exit code), and every run ends in
\* sys.exit with code 0 or 1.
C30_RunEndsInSysExit ==
    /\ [](pc = "summary" => DOMAIN results # {})
    /\ [](pc # "returned")
    /\ <>[](pc = "exited" /\ exitcode \in {0, 1})

\* a run without flags ended in sys.exit(0)
C30_Witness ==
    /\ pc = "exited"
    /\ args = {}
    /\ DOMAIN results # {}
    /\ exitcode = 0


\* C21: once a login has succeeded the session keeps the marker, with the same
\* user id, over every later request that is not a logout (the GET of the
\* login page and the GET of the admin area by a non-staff user among them).
C21_MarkerKeptUntilLogout ==
    HasMarker(last.pre.session) /\ last.op # "logout" =>
        /\ HasMarker(session)
        /\ session[SESSION_KEY] = last.pre.session[SESSION_KEY]

\* a logged-in non-staff user was sent away from the admin area
C21_Witness ==
    /\ last.op = "get_admin"
    /\ last.status = 302
    /\ HasMarker(session)
    /\ flow.logins > 0
    /\ Cardinality(users) = 2


\* the login names a user and gives a password that is not the user's
C22_WrongPassword ==
    /\ last.op = "login"
    /\ \E u \in last.pre.users : last.req.login \in {u.email, u.username}
    /\ \A u \in last.pre.users :
         last.req.login \in {u.email, u.username} => ~check_password(u, last.req.password)

\* the active users whose login and password the request gives
C22_Owners ==
    {u \in last.pre.users : /\ last.req.login \in {u.email, u.username}
                            /\ check_password(u, last.req.password)
                            /\ u.is_active}

\* C22: failed logins leave no trace: each login with a wrong password, however
\* many came before it, is answered 200 with "not correct", changes no user and
\* sets no marker; and a login with the correct password after them succeeds.
C22_FailedLoginsAreStateless ==
    /\ C22_WrongPassword =>
         /\ last.status = 200
         /\ last.errors = {"not correct"}
         /\ users = last.pre.users
         /\ session = last.pre.session
         /\ ~HasMarker(session)
    /\ last.op = "login" /\ flow.failures > 0 /\ C22_Owners # {} =>
         /\ last.status = 302
         /\ \E u \in C22_Owners : /\ HasMarker(session)
                                  /\ session[SESSION_KEY] = value_to_string(pk(u))

\* the login succeeded right after as many failed logins as are followed
C22_Witness ==
    /\ last.op = "login"
    /\ last.status = 302
    /\ flow.failures = MaxFailures
    /\ HasMarker(session)


\* the 'google' apps there were before the request
C23_GoogleApps == {a \in last.pre.apps : a.provider = "google"}

\* the 'google' apps that were on the current site before the request
C23_OnSite == {a \in C23_GoogleApps : CurrentSite \in a.sites}

\* C23: the lookup of the OAuth login endpoint is scoped to the current site: a
\* new SocialApp is on no site; while a 'google' app exists but none is on the
\* current site the endpoint fails as it does without any app (500, nothing
\* changed); and the endpoint redirects only when a 'google' app is on the
\* current site.
C23_LookupScopedToSite ==
    /\ last.op = "socialapp_create" =>
         \A a \in apps \ last.pre.apps : a.sites = {}
    /\ last.op = "google_login" /\ C23_OnSite = {} =>
         /\ last.status = 500
         /\ last.errors = {"server error"}
         /\ last.url = NoUrl
         /\ OAuthFrame
    /\ last.op = "google_login" /\ last.status = 302 => C23_OnSite # {}

\* the endpoint failed while a 'google' app exists that is on no site, and no
\* app is on the current site
C23_Witness ==
    /\ last.op = "google_login"
    /\ last.status = 500
    /\ C23_GoogleApps # {}
    /\ \A a \in apps : a.sites = {}
    /\ Cardinality(apps) = 2


\* the signups that created a user
C26_Created == {c \in Clients : signups[c].at = "done" /\ signups[c].status = 302}

\* the signup of c shares neither its username nor its email with another
C26_Distinct(c) ==
    \A d \in Clients \ {c} :
        \/ signups[d].at = "idle"
        \/ /\ signups[d].username # signups[c].username
           /\ signups[d].email # signups[c].email

\* C26: of the signups with one email (and different usernames) processed at
\* the same time, whatever the order of their validation and insert steps, at
\* most one creates a user, so no two users have one email; signups whose
\* usernames and emails all differ all succeed.
C26_ConcurrentSignupsKeepEmailUnique ==
    /\ \A c, d \in C26_Created : signups[c].email = signups[d].email => c = d
    /\ \A u, v \in users : u.email = v.email => u = v
    /\ Cardinality(users) = Cardinality(C26_Created)
    /\ \A c \in Clients :
         signups[c].at = "done" /\ (\A d \in Clients : C26_Distinct(d))
           => signups[c].status = 302

\* two signups with one email and two usernames both passed the validation;
\* one created the user, the index refused the other
C26_Witness ==
    \E c, d \in Clients :
        /\ signups[c].at = "done" /\ signups[c].status = 302
        /\ signups[d].at = "done" /\ signups[d].status = 500
        /\ signups[c].email = signups[d].email
        /\ signups[c].username # signups[d].username
        /\ Cardinality(users) = 1


\* the users the marker of the session names
C29_Named == {u \in users : session[SESSION_KEY] = value_to_string(pk(u))}

\* the request set the marker, or set it to another id
C29_MarkerSet ==
    /\ HasMarker(session)
    /\ HasMarker(last.pre.session) =>
         session[SESSION_KEY] # last.pre.session[SESSION_KEY]

\* the request was a login with a password that verifies for an active user,
\* whom the marker names
C29_ByLogin ==
    /\ last.op = "login"
    /\ last.status = 302
    /\ \E u \in last.pre.users :
         /\ u \in C29_Named
         /\ last.req.login \in {u.email, u.username}
         /\ check_password(u, last.req.password)
         /\ u.is_active

\* the request was a signup that created the user the marker names, with the
\* password of the request
C29_BySignup ==
    /\ last.op = "signup"
    /\ last.status = 302
    /\ \E u \in users \ last.pre.users :
         /\ u \in C29_Named
         /\ u.email = last.req.email
         /\ check_password(u, last.req.password1)
         /\ u.is_active

\* C29: the marker of a session always names a user of the store, and it is
\* set only by a request that presented valid credentials of that user while
\* the user was active (a login, or the signup that created the user); signups,
\* logins, failed logins, logouts and requests to the OAuth login endpoint
\* never leave a marker that names nobody or somebody else.
C29_MarkerNamesAuthenticatedUser ==
    /\ HasMarker(session) => Cardinality(C29_Named) = 1
    /\ C29_MarkerSet => C29_ByLogin \/ C29_BySignup

\* a logged-in client requested the OAuth login endpoint of a configured site
\* after its user was deactivated; the marker still names the user
C29_Witness ==
    /\ last.op = "google_login"
    /\ last.status = 302
    /\ HasMarker(session)
    /\ \E u \in C29_Named : ~u.is_active
    /\ Cardinality(users) = 2

=============================================================================
